---- MODULE Spec2Model ----
(***************************************************************************)
(* The bubble system contract (core/vm/bubble_contract.go): allotment,     *)
(* the stake / withdraw asset bridge, settlement and the remote contract   *)
(* relay, as a state machine over the parent chain's native balances, a    *)
(* token ledger held by the virtual machine and the bubble plugin's        *)
(* records.  One action per contract entry point; every action is the      *)
(* whole handler, from the gas charge to the returned result.              *)
(***************************************************************************)
EXTENDS Integers, Sequences, FiniteSets, TLC

\* ------------------------------------------------------------------ bounds
MaxTx == 4          \* number of distinct non-zero transaction hashes
MaxAmt == 1         \* largest native amount named in a call
MaxTokens == 2      \* longest token list of a staked asset
MaxBatch == 2       \* longest settlement batch

\* --------------------------------------------------------------- universe
ZeroHash == 0                                  \* common.ZeroHash
BubbleContractAddr == "custody"                \* vm.BubbleContractAddr
Users == {"a1", "op"}                          \* externally owned senders
Addrs == Users \cup {BubbleContractAddr}
BubbleIDs == {1}
Tokens == {"t1", "t0"}                         \* t1 has code, t0 has none
L2Hashes == {"x"}
DeployAddrs == {"c1", "c0"}                    \* c1 has code, c0 has none
ExecAddrs == {"c1", "t1", "c0"}
MinStakingAmount == 1                          \* of the one size class
MaxTokAmt == 1                                 \* largest token amount named
CreatedStatus == 1                             \* running ("Active" is implicit)
PreReleaseStatus == 2
ReleasedStatus == 3
TxTypes == {"StakingToken", "WithdrewToken", "SettleBubble"}

\* Basics of every bubble: the operator lists written at creation.
OperatorsL1 == << [NodeId |-> "n1", OpAddr |-> "l1op"],
                  [NodeId |-> "n2", OpAddr |-> "l1op2"] >>
OperatorsL2 == << [NodeId |-> "m1", RPC |-> "rpc1", OpAddr |-> "op"] >>
NodeIDs == {"n1", "n2", "n3"}

Nil == << >>
Some(x) == << x >>

VARIABLES
    bal,         \* StateDB native balance of every address
    tok,         \* token ledger of the deployed token contract(s)
    bubbles,     \* set of bubble IDs that have basics and a status
    status,      \* bubble ID -> lifecycle state
    accList,     \* bubble ID -> ordered account list
    accAsset,    \* bubble ID -> account -> Nil or Some(AccountAsset)
    txHashList,  \* bubble ID -> tx type -> ordered list of tx hashes
    l2ToL1,      \* bubble ID -> L2 settlement hash -> Nil or Some(L1 hash)
    contracts,   \* bubble ID -> address -> Nil or Some(ContractInfo)
    byteCode,    \* addresses whose code is cached by the plugin
    tasks,       \* cross-chain tasks handed to the dispatch channel
    nodeID,      \* bc.Plugin.NodeID of the local node
    nextTx,      \* next unused non-zero transaction hash
    last,        \* the call just made: operation, arguments, outcome
    keys,        \* the database keys derived so far, with their arguments
    hq           \* the block-header query being answered, Nil when none

vars == << bal, tok, bubbles, status, accList, accAsset, txHashList, l2ToL1,
           contracts, byteCode, tasks, nodeID, nextTx, last, keys, hq >>

\* The chain state a handler reads and writes, as one record.
St == [ bal |-> bal, tok |-> tok, bubbles |-> bubbles, status |-> status,
        accList |-> accList, accAsset |-> accAsset,
        txHashList |-> txHashList, l2ToL1 |-> l2ToL1,
        contracts |-> contracts, byteCode |-> byteCode, tasks |-> tasks ]

\* ------------------------------------------------------------ collaborators
HasCode(a) == a \in {"t1", "c1"}

SubBalance(s, a, n) == [s EXCEPT !.bal[a] = @ - n]
AddBalance(s, a, n) == [s EXCEPT !.bal[a] = @ + n]

\* A synthesized transfer(to, amount) executed against the token contract
\* `self` with caller identity `caller`: a plain token ledger, which fails
\* without effect when the caller's token balance is too small.  Any other
\* payload against a contract with code succeeds unless it is "bad".
RunEvm(s, call) ==
    IF call.kind = "transfer"
    THEN IF call.contract \in DOMAIN s.tok
            /\ s.tok[call.contract][call.caller] >= call.amount
         THEN [s |-> [s EXCEPT !.tok[call.contract] =
                        [a \in Addrs |->
                           @[a] - (IF a = call.caller THEN call.amount ELSE 0)
                                + (IF a = call.to THEN call.amount ELSE 0)]],
               ok |-> TRUE]
         ELSE [s |-> s, ok |-> FALSE]
    ELSE [s |-> s, ok |-> call.kind = "good"]

TransferCall(contract, caller, to, amount) ==
    [kind |-> "transfer", contract |-> contract, caller |-> caller,
     to |-> to, amount |-> amount]

\* Errors of package x/bubble are *common.BizError values; anything else is
\* a plain error.
BizErrors == { "ErrStakingAccount", "ErrBubbleNotExist", "ErrBubbleIsRelease",
               "ErrAccountNoEnough", "ErrERC20NoExist", "ErrEVMExecERC20",
               "ErrBubbleIsNotRelease", "ErrStoreAccAsset",
               "ErrIsNotSubChainOpAddr", "ErrSettleAccListIncLength",
               "ErrSettleAccNoExist", "ErrStoreAccAssetToBub",
               "ErrStoreL2HashToL1Hash", "ErrStakingAmountTooLow",
               "ErrBubbleIsPreRelease", "ErrEmptyContractCode",
               "ErrContractIsExist", "ErrContractNotExist",
               "ErrSenderIsNotOperator", "ErrContractReturns",
               "ErrSenderIsNotCreator", "ErrElectBubble" }
IsBizError(err) == err \in BizErrors

\* --------------------------------------------------------- plugin records
GetBubBasics(s, bubbleID) == bubbleID \in s.bubbles
GetBubStatus(s, bubbleID) == bubbleID \in s.bubbles

RECURSIVE MergeToken(_, _)
MergeToken(list, ta) ==
    IF list = << >> THEN << ta >>
    ELSE IF Head(list).TokenAddr = ta.TokenAddr
         THEN << [Head(list) EXCEPT !.Balance = @ + ta.Balance] >>
              \o Tail(list)
         ELSE << Head(list) >> \o MergeToken(Tail(list), ta)

RECURSIVE MergeTokens(_, _)
MergeTokens(list, add) ==
    IF add = << >> THEN list
    ELSE MergeTokens(MergeToken(list, Head(add)), Tail(add))

StoreAccAssetToBub(s, bubbleID, asset) ==
    [s EXCEPT !.accAsset[bubbleID][asset.Account] = Some(asset)]

\* First stake of an account creates its record and registers the account;
\* a later stake adds to the stored amounts.
AddAccAssetToBub(s, bubbleID, asset) ==
    LET old == s.accAsset[bubbleID][asset.Account] IN
    IF old = Nil
    THEN StoreAccAssetToBub(
             [s EXCEPT !.accList[bubbleID] = Append(@, asset.Account)],
             bubbleID, asset)
    ELSE StoreAccAssetToBub(s, bubbleID,
             [Account |-> asset.Account,
              NativeAmount |-> old[1].NativeAmount + asset.NativeAmount,
              TokenAssets |-> MergeTokens(old[1].TokenAssets,
                                          asset.TokenAssets)])

StoreTxHashToBub(s, bubbleID, txHash, txType) ==
    [s EXCEPT !.txHashList[bubbleID][txType] = Append(@, txHash)]

StoreL2HashToL1Hash(s, bubbleID, l1Hash, l2Hash) ==
    [s EXCEPT !.l2ToL1[bubbleID][l2Hash] = Some(l1Hash)]

PostTask(s, task) == [s EXCEPT !.tasks = Append(@, task)]

\* ------------------------------------------------- StakingToken (handler)
IsEstimateGasNever(txHash) == FALSE

\* The transaction hash is the all-zero sentinel while gas is estimated.
IsEstimateGas(txHash) == txHash = ZeroHash

Ret(s, ret, err, calls) == [s |-> s, ret |-> ret, err |-> err, calls |-> calls]

TransferErrorAlwaysBiz(isEstimateGas) == "ErrEVMExecERC20"

\* What a failed token transfer becomes: a plain error while gas is
\* estimated, the business error otherwise.
TransferError(isEstimateGas) ==
    IF isEstimateGas THEN "errors.New" ELSE "ErrEVMExecERC20"

\* (the loop as it would be if estimation skipped the sub-calls)
RECURSIVE StakeTokensSkipOnEstimate(_, _, _, _, _)
StakeTokensSkipOnEstimate(s, from, assets, isEstimateGas, calls) ==
    IF assets = << >> \/ isEstimateGas
    THEN [s |-> s, ret |-> "nil", err |-> "nil", calls |-> calls]
    ELSE LET tokenAsset == Head(assets)
             call == TransferCall(tokenAsset.TokenAddr, from,
                                  BubbleContractAddr, tokenAsset.Balance)
             r == RunEvm(s, call)
         IN  IF ~HasCode(tokenAsset.TokenAddr)
             THEN [s |-> s, ret |-> "nil", err |-> "ErrERC20NoExist",
                   calls |-> calls]
             ELSE IF ~r.ok
                  THEN [s |-> r.s, ret |-> "nil", err |-> "ErrEVMExecERC20",
                        calls |-> Append(calls, call)]
                  ELSE StakeTokensSkipOnEstimate(r.s, from, Tail(assets),
                                                 isEstimateGas,
                                                 Append(calls, call))

\* The token loop of StakingToken: one transfer(custody, amount) per
\* declared token, made with the staker as caller; stops at the first token
\* without code or the first failed sub-call.
RECURSIVE StakeTokens(_, _, _, _, _)
StakeTokens(s, from, assets, isEstimateGas, calls) ==
    IF assets = << >> THEN Ret(s, "nil", "nil", calls)
    ELSE LET tokenAsset == Head(assets)
             erc20Addr == tokenAsset.TokenAddr
             call == TransferCall(erc20Addr, from, BubbleContractAddr,
                                  tokenAsset.Balance)
             r == RunEvm(s, call)
         IN  IF ~HasCode(erc20Addr)
             THEN Ret(s, "nil", "ErrERC20NoExist", calls)
             ELSE IF ~r.ok
                  THEN Ret(r.s, "nil",
                           TransferError(isEstimateGas),
                           Append(calls, call))
                  ELSE StakeTokens(r.s, from, Tail(assets), isEstimateGas,
                                   Append(calls, call))

MintTokenTask(bubbleID, txHash, asset) ==
    [kind |-> "mint", BubbleID |-> bubbleID, TxHash |-> txHash,
     RPC |-> OperatorsL2[1].RPC, OpAddr |-> OperatorsL1[1].OpAddr,
     Account |-> asset.Account]

IsPrimaryOperatorAnyL1(node) ==
    \E i \in 1..Len(OperatorsL1) : OperatorsL1[i].NodeId = node

\* Only bubble's main-chain operator node needs to handle the mint task.
IsPrimaryOperator(node) == node = OperatorsL1[1].NodeId

StakingTokenPersist(s, bubbleID, txHash, stakingAsset, node, fault, calls) ==
    LET s1 == AddAccAssetToBub(s, bubbleID, stakingAsset)
        s2 == StoreTxHashToBub(s1, bubbleID, txHash, "StakingToken")
        s3 == PostTask(s2, MintTokenTask(bubbleID, txHash, stakingAsset))
    IN  IF fault = "asset" THEN Ret(s, "nil", "dbError", calls)
        ELSE IF fault = "txhash" THEN Ret(s1, "nil", "dbError", calls)
        ELSE IF IsPrimaryOperator(node)
             THEN IF fault = "post" THEN Ret(s2, "nil", "postError", calls)
                  ELSE Ret(s3, "0x1", "nil", calls)
             ELSE Ret(s2, "0x1", "nil", calls)

StakingTokenMoveNoDebit(s, from, nativeAmount) ==
    IF nativeAmount > 0
    THEN AddBalance(s, BubbleContractAddr, nativeAmount)
    ELSE s

\* The native amount leaves the staker and enters the system contract.
StakingTokenMove(s, from, nativeAmount) ==
    IF nativeAmount > 0
    THEN AddBalance(SubBalance(s, from, nativeAmount),
                    BubbleContractAddr, nativeAmount)
    ELSE s

StakingStatusRejectsPreRelease(s, bubbleID) ==
    s.status[bubbleID] = PreReleaseStatus

\* A released bubble takes no more stakes.
StakingStatusRejects(s, bubbleID) == s.status[bubbleID] = ReleasedStatus

StakingToken(s, from, txHash, bubbleID, stakingAsset, node, fault) ==
    LET isEstimateGas == IsEstimateGas(txHash)
        nativeAmount == stakingAsset.NativeAmount
        s1 == StakingTokenMove(s, from, nativeAmount)
        loop == StakeTokens(s1, from, stakingAsset.TokenAssets,
                            isEstimateGas, << >>)
    IN  IF from # stakingAsset.Account
        THEN Ret(s, "nil", "ErrStakingAccount", << >>)
        ELSE IF ~GetBubBasics(s, bubbleID) \/ ~GetBubStatus(s, bubbleID)
        THEN Ret(s, "nil", "ErrBubbleNotExist", << >>)
        ELSE IF StakingStatusRejects(s, bubbleID)
        THEN Ret(s, "nil", "ErrBubbleIsRelease", << >>)
        ELSE IF s.bal[from] < nativeAmount
        THEN Ret(s, "nil", "ErrAccountNoEnough", << >>)
        ELSE IF loop.err # "nil" THEN loop
        ELSE IF isEstimateGas THEN Ret(loop.s, "nil", "nil", loop.calls)
        ELSE StakingTokenPersist(loop.s, bubbleID, txHash, stakingAsset,
                                 node, fault, loop.calls)

\* ------------------------------------------------ WithdrewToken (handler)
ZeroTokenKeepsBalance(tokenAsset) == tokenAsset

\* The entry appended to resetAsset for a forwarded token.
ZeroToken(tokenAsset) == [TokenAddr |-> tokenAsset.TokenAddr, Balance |-> 0]

\* The token loop of WithdrewToken: one transfer(from, amount) per stored
\* token, made with the custody address as caller; resetAsset collects a
\* zero entry for every token forwarded.
RECURSIVE WithdrawTokens(_, _, _, _, _, _)
WithdrawTokens(s, from, assets, isEstimateGas, reset, calls) ==
    IF assets = << >> THEN [Ret(s, "nil", "nil", calls) EXCEPT !.ret = reset]
    ELSE LET tokenAsset == Head(assets)
             erc20Addr == tokenAsset.TokenAddr
             call == TransferCall(erc20Addr, BubbleContractAddr, from,
                                  tokenAsset.Balance)
             r == RunEvm(s, call)
         IN  IF ~HasCode(erc20Addr)
             THEN Ret(s, << >>, "ErrERC20NoExist", calls)
             ELSE IF ~r.ok
                  THEN Ret(r.s, << >>,
                           TransferError(isEstimateGas),
                           Append(calls, call))
                  ELSE WithdrawTokens(r.s, from, Tail(assets), isEstimateGas,
                                      Append(reset, ZeroToken(tokenAsset)),
                                      Append(calls, call))

WithdrewStatusRejectsBelowPreRelease(s, bubbleID) ==
    s.status[bubbleID] < PreReleaseStatus

\* Only a released bubble lets an account redeem.
WithdrewStatusRejects(s, bubbleID) == s.status[bubbleID] # ReleasedStatus

WithdrewTokenMoveNoCredit(s, from, nativeAmount) ==
    IF nativeAmount > 0
    THEN SubBalance(s, BubbleContractAddr, nativeAmount)
    ELSE s

\* The stored native amount leaves the system contract for the caller.
WithdrewTokenMove(s, from, nativeAmount) ==
    IF nativeAmount > 0
    THEN AddBalance(SubBalance(s, BubbleContractAddr, nativeAmount),
                    from, nativeAmount)
    ELSE s

WithdrewTokenPersist(s, bubbleID, txHash, resetAsset, fault, calls) ==
    LET s1 == StoreAccAssetToBub(s, bubbleID, resetAsset)
        s2 == StoreTxHashToBub(s1, bubbleID, txHash, "WithdrewToken")
    IN  IF fault = "asset" THEN Ret(s, "nil", "ErrStoreAccAsset", calls)
        ELSE IF fault = "txhash" THEN Ret(s1, "nil", "dbError", calls)
        ELSE Ret(s2, "accAsset", "nil", calls)

\* notFound: what the plugin's asset lookup reports for an account without a
\* record, "nil" (no asset, no error) or an error.
WithdrewToken(s, from, txHash, bubbleID, fault, notFound) ==
    LET isEstimateGas == IsEstimateGas(txHash)
        accAsset_ == s.accAsset[bubbleID][from]
        s1 == WithdrewTokenMove(s, from, accAsset_[1].NativeAmount)
        loop == WithdrawTokens(s1, from, accAsset_[1].TokenAssets,
                               isEstimateGas, << >>, << >>)
        resetAsset == [Account |-> from, NativeAmount |-> 0,
                       TokenAssets |-> loop.ret]
    IN  IF ~GetBubBasics(s, bubbleID) \/ ~GetBubStatus(s, bubbleID)
        THEN Ret(s, "nil", "ErrBubbleNotExist", << >>)
        ELSE IF WithdrewStatusRejects(s, bubbleID)
        THEN Ret(s, "nil", "ErrBubbleIsNotRelease", << >>)
        ELSE IF accAsset_ = Nil THEN Ret(s, "nil", notFound, << >>)
        ELSE IF loop.err # "nil" THEN [loop EXCEPT !.ret = "nil"]
        ELSE IF isEstimateGas THEN Ret(loop.s, "nil", "nil", loop.calls)
        ELSE WithdrewTokenPersist(loop.s, bubbleID, txHash, resetAsset,
                                  fault, loop.calls)

\* ------------------------------------------------- SettleBubble (handler)
\* The account list as the handler sees it: the read's error is dropped, so
\* a failed read leaves the nil list.
GetAccListOfBub(s, bubbleID, readErr) ==
    IF readErr THEN << >> ELSE s.accList[bubbleID]

SettleSenderRejectsOperator(from) == from = OperatorsL2[1].OpAddr

\* Only the sub-chain operating address may submit a settlement.
SettleSenderRejects(from) == from # OperatorsL2[1].OpAddr

SettleAccountsExistUnchecked(s, bubbleID, accAssets) == TRUE

\* Every submitted account must already hold an asset record.
SettleAccountsExist(s, bubbleID, accAssets) ==
    \A i \in 1..Len(accAssets) :
        s.accAsset[bubbleID][accAssets[i].Account] # Nil

RECURSIVE SettleStore(_, _, _)
SettleStore(s, bubbleID, newAccAssets) ==
    IF newAccAssets = << >> THEN s
    ELSE SettleStore(StoreAccAssetToBub(s, bubbleID, Head(newAccAssets)),
                     bubbleID, Tail(newAccAssets))

SettleBubblePersist(s, bubbleID, txHash, L2SettleTxHash, newAccAssets, fault) ==
    LET s1 == SettleStore(s, bubbleID, newAccAssets)
        s2 == StoreL2HashToL1Hash(s1, bubbleID, txHash, L2SettleTxHash)
        s3 == StoreTxHashToBub(s2, bubbleID, txHash, "SettleBubble")
    IN  IF fault = "asset" /\ newAccAssets # << >>
        THEN Ret(s, "nil", "ErrStoreAccAssetToBub", << >>)
        ELSE IF fault = "l2hash"
        THEN Ret(s1, "nil", "ErrStoreL2HashToL1Hash", << >>)
        ELSE IF fault = "txhash" THEN Ret(s2, "nil", "dbError", << >>)
        ELSE Ret(s3, "0x1", "nil", << >>)

SettleBubble(s, from, txHash, L2SettleTxHash, bubbleID, settlementInfo, fault, readErr) ==
    IF ~GetBubBasics(s, bubbleID) \/ ~GetBubStatus(s, bubbleID)
    THEN Ret(s, "nil", "ErrBubbleNotExist", << >>)
    ELSE IF s.status[bubbleID] = ReleasedStatus
    THEN Ret(s, "nil", "ErrBubbleIsRelease", << >>)
    ELSE IF SettleSenderRejects(from)
    THEN Ret(s, "nil", "ErrIsNotSubChainOpAddr", << >>)
    ELSE IF Len(GetAccListOfBub(s, bubbleID, readErr)) # Len(settlementInfo)
    THEN Ret(s, "nil", "ErrSettleAccListIncLength", << >>)
    ELSE IF ~SettleAccountsExist(s, bubbleID, settlementInfo)
    THEN Ret(s, "nil", "ErrSettleAccNoExist", << >>)
    ELSE IF IsEstimateGas(txHash) THEN Ret(s, "nil", "nil", << >>)
    ELSE SettleBubblePersist(s, bubbleID, txHash, L2SettleTxHash,
                             settlementInfo, fault)

\* --------------------------------------------------- entry-point wrappers
\* What a handler's (result, error) pair becomes for the caller:
\*   "null"  nil result, nil error (the estimation result)
\*   "biz"   structured failure result built by txResultHandler
\*   "hard"  an error returned to the virtual machine
\*   "ok"    success receipt built by txResultHandlerWithRes
Outcome(r) ==
    IF r.err = "nil" /\ r.ret = "nil" THEN "null"
    ELSE IF r.err # "nil"
         THEN IF IsBizError(r.err) THEN "biz" ELSE "hard"
         ELSE "ok"

Result(s, out, calls) == [s |-> s, out |-> out, calls |-> calls]

stakingToken(s, from, txHash, gasOK, bubbleID, stakingAsset, node, fault) ==
    LET r == StakingToken(s, from, txHash, bubbleID, stakingAsset, node, fault)
    IN  IF ~gasOK THEN Result(s, "oog", << >>)
        ELSE Result(r.s, Outcome(r), r.calls)

withdrewToken(s, from, txHash, gasOK, bubbleID, fault, notFound) ==
    LET r == WithdrewToken(s, from, txHash, bubbleID, fault, notFound)
    IN  IF ~gasOK THEN Result(s, "oog", << >>)
        ELSE Result(r.s, Outcome(r), r.calls)

settleBubble(s, from, txHash, gasOK, L2SettleTxHash, bubbleID, settlementInfo, fault, readErr) ==
    LET r == SettleBubble(s, from, txHash, L2SettleTxHash, bubbleID,
                          settlementInfo, fault, readErr)
    IN  IF ~gasOK THEN Result(s, "oog", << >>)
        ELSE Result(r.s, Outcome(r), r.calls)

\* ------------------------------------------------------------- allotBubble
\* CreateBubble: a bubble with a fresh ID, in the first lifecycle state, with
\* empty records.  Fails when no ID is left.
CanCreateBubble(s) == BubbleIDs \ s.bubbles # {}
CreateBubble(s) ==
    LET id == CHOOSE b \in BubbleIDs \ s.bubbles :
                  \A c \in BubbleIDs \ s.bubbles : b <= c
    IN  [s |-> [s EXCEPT !.bubbles = @ \cup {id},
                         !.status[id] = CreatedStatus],
         id |-> id]

\* ElectBubble picks an existing bubble that is not released; it reads only.
CanElectBubble(s) == \E b \in s.bubbles : s.status[b] < ReleasedStatus
ElectBubble(s) ==
    CHOOSE b \in s.bubbles :
        /\ s.status[b] < ReleasedStatus
        /\ \A c \in s.bubbles : s.status[c] < ReleasedStatus => b <= c

\* env: what the collaborators answer during this call
\*   ratioErr, vrfErr  GetNodeUseRatio / VRF nonce load fail
\*   ratioLow          useRatio < MaxNodeUseRatio
\*   elemOK            CheckBubbleElements passes
\*   createOK          CreateBubble does not fail
\*   electErr          "nil", "biz" or "hard": ElectBubble's own error
UseRatioBelowMaxAlways(env) == TRUE

\* useRatio < bubble.MaxNodeUseRatio
UseRatioBelowMax(env) == env.ratioLow

allotBubble(s, from, txHash, gasOK, env) ==
    LET elect == IF env.electErr = "biz" \/ ~CanElectBubble(s)
                 THEN Result(s, "biz", << >>)
                 ELSE IF env.electErr = "hard" THEN Result(s, "hard", << >>)
                 ELSE Result(s, "ok", << >>)
    IN  IF ~gasOK THEN Result(s, "oog", << >>)
        ELSE IF env.ratioErr \/ env.vrfErr THEN Result(s, "hard", << >>)
        ELSE IF UseRatioBelowMax(env) /\ env.elemOK
        THEN IF txHash = ZeroHash THEN Result(s, "null", << >>)
             ELSE IF env.createOK /\ CanCreateBubble(s)
                  THEN Result(CreateBubble(s).s, "ok", << >>)
                  ELSE elect
        ELSE elect

\* ------------------------------------------------------------ remoteDeploy
GetByteCode(s, address) == address \in s.byteCode \/ HasCode(address)

RemoteDeployTask(txHash, bubbleID, address) ==
    [kind |-> "deploy", BubbleID |-> bubbleID, TxHash |-> txHash,
     RPC |-> OperatorsL2[1].RPC, OpAddr |-> OperatorsL1[1].OpAddr,
     Account |-> address]

PostForOperatorsAnyNode(s, ops, node, task) ==
    IF ops = << >> THEN s ELSE PostTask(s, task)

\* One post per entry of the L1 operator list whose node is the local node.
RECURSIVE PostForOperators(_, _, _, _)
PostForOperators(s, ops, node, task) ==
    IF ops = << >> THEN s
    ELSE PostForOperators(IF Head(ops).NodeId = node THEN PostTask(s, task)
                                                     ELSE s,
                          Tail(ops), node, task)

IsL1Operator(node) == \E i \in 1..Len(OperatorsL1) : OperatorsL1[i].NodeId = node

remoteDeployPersist(s, from, txHash, bubbleID, address, amount, node, fault) ==
    LET s1 == AddBalance(SubBalance(s, from, amount), BubbleContractAddr, amount)
        s2 == [s1 EXCEPT !.byteCode = @ \cup {address}]
        s3 == [s2 EXCEPT !.contracts[bubbleID][address] =
                 Some([Creator |-> from, Address |-> address, Amount |-> amount])]
        s4 == PostForOperators(s3, OperatorsL1, node,
                               RemoteDeployTask(txHash, bubbleID, address))
    IN  IF fault = "contract" THEN Result(s2, "hard", << >>)
        ELSE IF fault = "post" /\ IsL1Operator(node)
        THEN Result(s3, "hard", << >>)
        ELSE Result(s4, "ok", << >>)

StakingAmountTooLowOrEqual(amount) == amount <= MinStakingAmount

\* amount.Cmp(config.MinStakingAmount) < 0
StakingAmountTooLow(amount) == amount < MinStakingAmount

DeployStatusRejectsAfterPreRelease(s, bubbleID) ==
    s.status[bubbleID] > PreReleaseStatus

\* bub.State >= bubble.PreReleaseStatus
DeployStatusRejects(s, bubbleID) == s.status[bubbleID] >= PreReleaseStatus

ContractIsExistNever(s, bubbleID, address) == FALSE

\* contractInfo != nil: the address is already registered in the bubble.
ContractIsExist(s, bubbleID, address) == s.contracts[bubbleID][address] # Nil

remoteDeploy(s, from, txHash, gasOK, bubbleID, address, amount, node, fault) ==
    IF ~gasOK THEN Result(s, "oog", << >>)
    ELSE IF bubbleID \notin s.bubbles THEN Result(s, "biz", << >>)
    ELSE IF StakingAmountTooLow(amount) THEN Result(s, "biz", << >>)
    ELSE IF s.bal[from] < amount THEN Result(s, "bizerr", << >>)
    ELSE IF DeployStatusRejects(s, bubbleID) THEN Result(s, "biz", << >>)
    ELSE IF ~GetByteCode(s, address) THEN Result(s, "biz", << >>)
    ELSE IF ContractIsExist(s, bubbleID, address) THEN Result(s, "biz", << >>)
    ELSE IF txHash = ZeroHash THEN Result(s, "null", << >>)
    ELSE remoteDeployPersist(s, from, txHash, bubbleID, address, amount,
                             node, fault)

\* ------------------------------------------------------------- remoteClear
\* No gas is charged.  A missing ContractInfo is dereferenced: the handler
\* faults ("panic").
ClearSenderRejectsNever(from, info) == FALSE

\* from != contractInfo.Creator
ClearSenderRejects(from, info) == from # info[1].Creator

remoteClear(s, from, txHash, bubbleID, address, fault) ==
    LET info == s.contracts[bubbleID][address]
        s1 == [s EXCEPT !.contracts[bubbleID][address] = Nil]
        s2 == AddBalance(SubBalance(s1, BubbleContractAddr, info[1].Amount),
                         from, info[1].Amount)
    IN  IF info = Nil THEN Result(s, "panic", << >>)
        ELSE IF ClearSenderRejects(from, info) THEN Result(s, "biz", << >>)
        ELSE IF txHash = ZeroHash THEN Result(s, "null", << >>)
        ELSE IF fault = "contract" THEN Result(s, "hard", << >>)
        ELSE Result(s2, "ok", << >>)

\* -------------------------------------------------------------- remoteCall
RemoteCallTask(txHash, origin, bubbleID, contract) ==
    [kind |-> "call", BubbleID |-> bubbleID, TxHash |-> txHash,
     RPC |-> OperatorsL2[1].RPC, OpAddr |-> OperatorsL1[1].OpAddr,
     Account |-> contract]

remoteCall(s, from, txHash, gasOK, bubbleID, contract, node, fault) ==
    LET s1 == PostForOperators(s, OperatorsL1, node,
                               RemoteCallTask(txHash, from, bubbleID, contract))
    IN  IF ~gasOK THEN Result(s, "oog", << >>)
        ELSE IF bubbleID \notin s.bubbles THEN Result(s, "biz", << >>)
        ELSE IF s.contracts[bubbleID][contract] = Nil
        THEN Result(s, "biz", << >>)
        ELSE IF txHash = ZeroHash THEN Result(s, "null", << >>)
        ELSE IF fault = "post" /\ IsL1Operator(node)
        THEN Result(s, "hard", << >>)
        ELSE Result(s1, "ok", << >>)

\* ------------------------------------------------------ remoteCallExecutor
\* data: the payload, [kind, to, amount]; run against `contract` with the
\* caller identity switched to `caller`.
ExecutorSenderRejectsNonL1(from) == from # OperatorsL1[1].OpAddr

\* sender only operator
ExecutorSenderRejects(from) == from # OperatorsL2[1].OpAddr

remoteCallExecutor(s, from, txHash, gasOK, caller, bubbleID, contract, data) ==
    LET isEstimateGas == txHash = ZeroHash
        call == [kind |-> data.kind, contract |-> contract, caller |-> caller,
                 to |-> data.to, amount |-> data.amount]
        r == RunEvm(s, call)
    IN  IF ~gasOK THEN Result(s, "oog", << >>)
        ELSE IF bubbleID \notin s.bubbles THEN Result(s, "biz", << >>)
        ELSE IF ExecutorSenderRejects(from) THEN Result(s, "biz", << >>)
        ELSE IF ~HasCode(contract) THEN Result(s, "biz", << >>)
        ELSE IF ~r.ok
        THEN Result(r.s, IF isEstimateGas THEN "hard" ELSE "biz", << call >>)
        ELSE Result(r.s, "ok", << call >>)

\* ----------------------------------------------------------------- queries
\* The three read-only entry points.  lookupErr: the plugin's read fails.
\* A query returns callResultHandler's encoding of (value, error) with a nil
\* error of its own: "ok" with the value, "notfound" with the error code.
QueryResultAborts(err) == IF err THEN "hard" ELSE "ok"

QueryResult(err) == IF err THEN "notfound" ELSE "ok"

getBubbleInfo(s, bubbleID, lookupErr) ==
    Result(s, QueryResult(lookupErr \/ bubbleID \notin s.bubbles), << >>)

getL1HashByL2Hash(s, bubbleID, L2TxHash, lookupErr) ==
    Result(s, QueryResult(lookupErr \/ s.l2ToL1[bubbleID][L2TxHash] = Nil),
           << >>)

getBubTxHashList(s, bubbleID, txType, lookupErr) ==
    Result(s, QueryResult(lookupErr), << >>)

\* ---------------------------------------------------------------- inputs
SeqsUpTo(S, n) == UNION { [1..k -> S] : k \in 0..n }

TokenAssetsIn == SeqsUpTo([TokenAddr : Tokens, Balance : 1..MaxTokAmt],
                          MaxTokens)
StakingAssets == [Account : Users, NativeAmount : 0..MaxAmt,
                  TokenAssets : TokenAssetsIn]
SettleAssets == [Account : Users, NativeAmount : 0..MaxAmt,
                 TokenAssets : SeqsUpTo([TokenAddr : {"t1"},
                                         Balance : 1..MaxTokAmt], 1)]
SettlementInfos == SeqsUpTo(SettleAssets, MaxBatch)
ExecData == [kind : {"good", "bad"}, to : {"a1"}, amount : {0}]

\* What the collaborators answer during an allotBubble call:
\*   ratioErr, vrfErr  GetNodeUseRatio / VRF nonce load fail
\*   ratioLow          useRatio < MaxNodeUseRatio
\*   elemOK            CheckBubbleElements passes
\*   createOK          CreateBubble does not fail
\*   electErr          "nil", "biz" or "hard": ElectBubble's own error
AllotEnv(ratioErr, vrfErr, ratioLow, elemOK, createOK, electErr) ==
    [ratioErr |-> ratioErr, vrfErr |-> vrfErr, ratioLow |-> ratioLow,
     elemOK |-> elemOK, createOK |-> createOK, electErr |-> electErr]
AllotEnvs ==
    { AllotEnv(TRUE, FALSE, TRUE, TRUE, TRUE, "nil"),
      AllotEnv(FALSE, TRUE, TRUE, TRUE, TRUE, "nil"),
      AllotEnv(FALSE, FALSE, TRUE, TRUE, TRUE, "nil") }
    \cup { AllotEnv(FALSE, FALSE, TRUE, TRUE, FALSE, e) :
             e \in {"nil", "biz", "hard"} }
    \cup { AllotEnv(FALSE, FALSE, TRUE, FALSE, TRUE, e) :
             e \in {"nil", "biz", "hard"} }
    \cup { AllotEnv(FALSE, FALSE, FALSE, TRUE, TRUE, e) :
             e \in {"nil", "biz", "hard"} }

\* A transaction hash for the next call: the zero sentinel (estimation) or
\* the next unused hash.
TxHashes == {h \in {ZeroHash, nextTx} : h <= MaxTx}

\* The batch is read only after the sender check: one batch stands for all
\* of them when the sender is not the operator.  A failed account-list read
\* yields the empty list, which only a batch of at most one entry can tell
\* from a list of two or more.
SettleInputs(from) ==
    IF from = OperatorsL2[1].OpAddr THEN SettlementInfos
    ELSE SeqsUpTo(SettleAssets, 0)
ReadErrs(info) == IF Len(info) <= 1 THEN BOOLEAN ELSE {FALSE}

\* A plugin write or a task post can fail only where the handler reaches it:
\* under a non-zero hash, in a call that succeeds when nothing fails.
Faults(tx, r0, faults) ==
    {"none"} \cup (IF tx # ZeroHash /\ r0.out = "ok" THEN faults ELSE {})

\* ------------------------------------------------------------------ state
Call(op, from, bub, tx, out, amt, n, fault, touched, dirty) ==
    [op |-> op, from |-> from, bub |-> bub, tx |-> tx, out |-> out,
     amt |-> amt, n |-> n, fault |-> fault, touched |-> touched,
     dirty |-> dirty]

Init ==
    /\ bal = [a \in Addrs |-> IF a = "a1" THEN 2 ELSE 0]
    /\ tok = [t \in {"t1"} |-> [a \in Addrs |-> IF a = "a1" THEN 1 ELSE 0]]
    /\ bubbles = {}
    /\ status = [b \in BubbleIDs |-> 0]
    /\ accList = [b \in BubbleIDs |-> << >>]
    /\ accAsset = [b \in BubbleIDs |-> [a \in Users |-> Nil]]
    /\ txHashList = [b \in BubbleIDs |-> [ty \in TxTypes |-> << >>]]
    /\ l2ToL1 = [b \in BubbleIDs |-> [h \in L2Hashes |-> Nil]]
    /\ contracts = [b \in BubbleIDs |-> [c \in DeployAddrs |-> Nil]]
    /\ byteCode = {}
    /\ tasks = << >>
    /\ nodeID = OperatorsL1[1].NodeId
    /\ nextTx = 1
    /\ last = Call("init", "a1", 1, ZeroHash, "ok", 0, 0, "none", {}, TRUE)
    /\ keys = << >>
    /\ hq = Nil

\* A result that is an error returned to the virtual machine (out of gas, a
\* plain error, a fault) aborts the transition: every change the handler
\* made is dropped.  A zero-hash call is a gas-estimation probe, run by the
\* host on a copy of the state that is thrown away.  Any other result leaves
\* the handler's changes in place.
Aborts(out) == out \in {"oog", "hard", "panic", "bizerr"}
Commit(s, tx, r) == IF Aborts(r.out) \/ tx = ZeroHash THEN s ELSE r.s

\* The parts of the state a handler had written when it returned.
Touched(s, s2) == {k \in DOMAIN s : s[k] # s2[k]}

\* A call that left the chain state as it was leads to a state that differs
\* from the one before it in `last` only; the next call is made from the
\* state before it.
Ready == last.dirty

\* One call of an entry point: install the resulting chain state and record
\* the call.  A hash counts as used once a call made under it changed state.
Apply(op, from, bub, tx, r, amt, n, fault) ==
    LET s2 == Commit(St, tx, r) IN
    /\ Ready
    /\ bal' = s2.bal
    /\ tok' = s2.tok
    /\ bubbles' = s2.bubbles
    /\ status' = s2.status
    /\ accList' = s2.accList
    /\ accAsset' = s2.accAsset
    /\ txHashList' = s2.txHashList
    /\ l2ToL1' = s2.l2ToL1
    /\ contracts' = s2.contracts
    /\ byteCode' = s2.byteCode
    /\ tasks' = s2.tasks
    /\ nextTx' = IF s2 # St THEN nextTx + 1 ELSE nextTx
    /\ last' = Call(op, from, bub, tx, r.out, amt, n, fault,
                    Touched(St, r.s), s2 # St)
    /\ UNCHANGED << nodeID, keys, hq >>

\* ---------------------------------------------------------------- actions
\* Each entry point is offered every argument with the gas charge met, and
\* once per sender and hash with the gas charge not met (the charge is
\* decided before any argument is read).
NoAsset(a) == [Account |-> a, NativeAmount |-> 0, TokenAssets |-> << >>]

DoAllotBubble ==
    \/ \E from \in Users, tx \in TxHashes, env \in AllotEnvs :
         Apply("allotBubble", from, 1, tx,
               allotBubble(St, from, tx, TRUE, env), 0, 0,
               IF env.ratioLow /\ env.elemOK THEN "create" ELSE "elect")
    \/ \E from \in Users, tx \in TxHashes :
         Apply("allotBubble", from, 1, tx,
               allotBubble(St, from, tx, FALSE,
                           AllotEnv(FALSE, FALSE, TRUE, TRUE, TRUE, "nil")),
               0, 0, "oog")

DoStakingToken ==
    \/ \E from \in Users, tx \in TxHashes, b \in BubbleIDs,
          asset \in StakingAssets :
         \E fault \in Faults(tx, stakingToken(St, from, tx, TRUE, b, asset,
                                              nodeID, "none"),
                             {"asset", "txhash", "post"}) :
           Apply("stakingToken", from, b, tx,
                 stakingToken(St, from, tx, TRUE, b, asset, nodeID, fault),
                 asset.NativeAmount, Len(asset.TokenAssets), fault)
    \/ \E from \in Users, tx \in TxHashes, b \in BubbleIDs :
         Apply("stakingToken", from, b, tx,
               stakingToken(St, from, tx, FALSE, b, NoAsset(from), nodeID,
                            "none"),
               0, 0, "oog")

\* What the bubble holds for an account when the call is made.
StoredNative(b, a) ==
    IF accAsset[b][a] = Nil THEN 0 ELSE accAsset[b][a][1].NativeAmount
StoredTokens(b, a) ==
    IF accAsset[b][a] = Nil THEN 0 ELSE Len(accAsset[b][a][1].TokenAssets)

DoWithdrewToken ==
    \/ \E from \in Users, tx \in TxHashes, b \in BubbleIDs,
          notFound \in {"nil", "dbError"} :
         \E fault \in Faults(tx, withdrewToken(St, from, tx, TRUE, b, "none",
                                               notFound),
                             {"asset", "txhash"}) :
           Apply("withdrewToken", from, b, tx,
                 withdrewToken(St, from, tx, TRUE, b, fault, notFound),
                 StoredNative(b, from), StoredTokens(b, from), fault)
    \/ \E from \in Users, tx \in TxHashes, b \in BubbleIDs :
         Apply("withdrewToken", from, b, tx,
               withdrewToken(St, from, tx, FALSE, b, "none", "nil"),
               0, 0, "oog")

DoSettleBubble ==
    \/ \E from \in Users, tx \in TxHashes, b \in BubbleIDs, l2 \in L2Hashes :
        \E info \in SettleInputs(from) :
        \E readErr \in ReadErrs(info) :
         \E fault \in Faults(tx, settleBubble(St, from, tx, TRUE, l2, b, info,
                                              "none", readErr),
                             {"asset", "l2hash", "txhash"}) :
           Apply("settleBubble", from, b, tx,
                 settleBubble(St, from, tx, TRUE, l2, b, info, fault, readErr),
                 0, Len(info),
                 IF readErr /\ fault = "none" THEN "readErr" ELSE fault)
    \/ \E from \in Users, tx \in TxHashes, b \in BubbleIDs, l2 \in L2Hashes :
         Apply("settleBubble", from, b, tx,
               settleBubble(St, from, tx, FALSE, l2, b, << >>, "none", FALSE),
               0, 0, "oog")

DoRemoteDeploy ==
    \/ \E from \in Users, tx \in TxHashes, b \in BubbleIDs,
          address \in DeployAddrs, amount \in 0..MaxAmt :
         \E fault \in Faults(tx, remoteDeploy(St, from, tx, TRUE, b, address,
                                              amount, nodeID, "none"),
                             {"contract", "post"}) :
           Apply("remoteDeploy", from, b, tx,
                 remoteDeploy(St, from, tx, TRUE, b, address, amount, nodeID,
                              fault),
                 amount, 0, fault)
    \/ \E from \in Users, tx \in TxHashes, b \in BubbleIDs,
          address \in DeployAddrs :
         Apply("remoteDeploy", from, b, tx,
               remoteDeploy(St, from, tx, FALSE, b, address, 0, nodeID,
                            "none"),
               0, 0, "oog")

DoRemoteClear ==
    \E from \in Users, tx \in TxHashes, b \in BubbleIDs,
       address \in DeployAddrs :
      \E fault \in Faults(tx, remoteClear(St, from, tx, b, address, "none"),
                          {"contract"}) :
        Apply("remoteClear", from, b, tx,
              remoteClear(St, from, tx, b, address, fault), 0, 0, fault)

DoRemoteCall ==
    \/ \E from \in Users, tx \in TxHashes, b \in BubbleIDs,
          contract \in DeployAddrs :
         \E fault \in Faults(tx, remoteCall(St, from, tx, TRUE, b, contract,
                                            nodeID, "none"),
                             {"post"}) :
           Apply("remoteCall", from, b, tx,
                 remoteCall(St, from, tx, TRUE, b, contract, nodeID, fault),
                 0, 0, fault)
    \/ \E from \in Users, tx \in TxHashes, b \in BubbleIDs,
          contract \in DeployAddrs :
         Apply("remoteCall", from, b, tx,
               remoteCall(St, from, tx, FALSE, b, contract, nodeID, "none"),
               0, 0, "oog")

DoRemoteCallExecutor ==
    \E from \in Users, tx \in TxHashes, gasOK \in BOOLEAN, b \in BubbleIDs,
       caller \in Users, contract \in ExecAddrs, data \in ExecData :
        Apply("remoteCallExecutor", from, b, tx,
              remoteCallExecutor(St, from, tx, gasOK, caller, b, contract,
                                 data),
              0, 0, IF gasOK THEN "none" ELSE "oog")

\* The registry moves a bubble forward through its lifecycle.
AdvanceStatus ==
    \E b \in bubbles :
        /\ Ready
        /\ status[b] < ReleasedStatus
        /\ status' = [status EXCEPT ![b] = @ + 1]
        /\ last' = Call("advance", "a1", b, ZeroHash, "ok", 0, 0, "none",
                        {"status"}, TRUE)
        /\ UNCHANGED << bal, tok, bubbles, accList, accAsset, txHashList,
                        l2ToL1, contracts, byteCode, tasks, nodeID, nextTx,
                        keys, hq >>

Next ==
    \/ DoAllotBubble
    \/ DoStakingToken
    \/ DoWithdrewToken
    \/ DoSettleBubble
    \/ DoRemoteDeploy
    \/ DoRemoteClear
    \/ DoRemoteCall
    \/ DoRemoteCallExecutor
    \/ AdvanceStatus

Spec == Init /\ [][Next]_vars

\* The asset bridge on its own: allotment, stake, settlement, withdrawal.
NextBridge ==
    \/ DoAllotBubble
    \/ DoStakingToken
    \/ DoWithdrewToken
    \/ DoSettleBubble
    \/ AdvanceStatus

SpecBridge == Init /\ [][NextBridge]_vars

\* The queries, called between allotments, stakes and settlements.
DoGetBubbleInfo ==
    \E from \in Users, tx \in TxHashes, b \in BubbleIDs, lookupErr \in BOOLEAN :
        Apply("getBubbleInfo", from, b, tx, getBubbleInfo(St, b, lookupErr),
              0, 0, IF lookupErr THEN "readErr" ELSE "none")

DoGetL1HashByL2Hash ==
    \E from \in Users, tx \in TxHashes, b \in BubbleIDs, l2 \in L2Hashes,
       lookupErr \in BOOLEAN :
        Apply("getL1HashByL2Hash", from, b, tx,
              getL1HashByL2Hash(St, b, l2, lookupErr),
              0, 0, IF lookupErr THEN "readErr" ELSE "none")

DoGetBubTxHashList ==
    \E from \in Users, tx \in TxHashes, b \in BubbleIDs, txType \in TxTypes,
       lookupErr \in BOOLEAN :
        Apply("getBubTxHashList", from, b, tx,
              getBubTxHashList(St, b, txType, lookupErr),
              0, 0, IF lookupErr THEN "readErr" ELSE "none")

NextQuery ==
    \/ DoAllotBubble
    \/ DoStakingToken
    \/ DoSettleBubble
    \/ AdvanceStatus
    \/ DoGetBubbleInfo
    \/ DoGetL1HashByL2Hash
    \/ DoGetBubTxHashList

SpecQuery == Init /\ [][NextQuery]_vars

\* The remote contract relay on its own, on a node that is the bubble's
\* first L1 operator, another of its L1 operators, or neither.
InitAnyNode ==
    /\ bal = [a \in Addrs |-> IF a = "a1" THEN 2 ELSE 0]
    /\ tok = [t \in {"t1"} |-> [a \in Addrs |-> IF a = "a1" THEN 1 ELSE 0]]
    /\ bubbles = {}
    /\ status = [b \in BubbleIDs |-> 0]
    /\ accList = [b \in BubbleIDs |-> << >>]
    /\ accAsset = [b \in BubbleIDs |-> [a \in Users |-> Nil]]
    /\ txHashList = [b \in BubbleIDs |-> [ty \in TxTypes |-> << >>]]
    /\ l2ToL1 = [b \in BubbleIDs |-> [h \in L2Hashes |-> Nil]]
    /\ contracts = [b \in BubbleIDs |-> [c \in DeployAddrs |-> Nil]]
    /\ byteCode = {}
    /\ tasks = << >>
    /\ nodeID \in NodeIDs
    /\ nextTx = 1
    /\ last = Call("init", "a1", 1, ZeroHash, "ok", 0, 0, "none", {}, TRUE)
    /\ keys = << >>
    /\ hq = Nil

NextRelay ==
    \/ DoAllotBubble
    \/ DoRemoteDeploy
    \/ DoRemoteClear
    \/ DoRemoteCall
    \/ AdvanceStatus

SpecRelay == InitAnyNode /\ [][NextRelay]_vars

\* Staking on its own, on any of those nodes.
NextStake ==
    \/ DoAllotBubble
    \/ DoStakingToken
    \/ AdvanceStatus

SpecStake == InitAnyNode /\ [][NextStake]_vars

\* ---------------------------------------------------------- key derivation
\* x/bubble/bubble_db_key.go.  A key is a sequence of bytes: the prefix, the
\* RLP encoding of the bubble ID and, for two of the functions, the bytes of
\* an account or of a transaction hash.
AddrLen == 2        \* bytes of an account (common.AddressLength, scaled)
HashLen == 3        \* bytes of a hash (common.HashLength, scaled)
MaxKeyCalls == 2    \* derivations compared with one another

bubbleKeyPrefix == << 66, 117, 98, 98, 108, 101 >>              \* "Bubble"
AccListKeyPrefix == << 65, 99, 99, 76, 105, 115, 116 >>         \* "AccList"
AccAssetKeyPrefix == << 65, 99, 99, 65, 115, 115, 101, 116 >>   \* "AccAsset"
TxHashKeyPrefix == << 84, 120, 72, 97, 115, 104 >>              \* "TxHash"

\* The big-endian bytes of a positive integer, without leading zeros.
RECURSIVE BigEndian(_)
BigEndian(n) ==
    IF n < 256 THEN << n >> ELSE BigEndian(n \div 256) \o << n % 256 >>

\* rlp.EncodeToBytes of a non-negative big integer: the empty string for 0,
\* the byte itself below 128, otherwise a length header and the bytes.
EncodeToBytes(n) ==
    IF n = 0 THEN << 128 >>
    ELSE IF n < 128 THEN << n >>
    ELSE << 128 + Len(BigEndian(n)) >> \o BigEndian(n)

GetBubbleKey(bubbleID) == bubbleKeyPrefix \o EncodeToBytes(bubbleID)

AccListByBubKey(bubbleID) == AccListKeyPrefix \o EncodeToBytes(bubbleID)

AccAssetByBubKeyNoBubble(bubbleID, account) == AccAssetKeyPrefix \o account

AccAssetByBubKey(bubbleID, account) ==
    (AccAssetKeyPrefix \o EncodeToBytes(bubbleID)) \o account

TxHashByBubKey(bubbleID, txHash) ==
    (TxHashKeyPrefix \o EncodeToBytes(bubbleID)) \o txHash

\* Bubble IDs on both sides of every length class of the encoding, and
\* account and hash bytes that also occur as encoding bytes.
KeyIDs == {0, 1, 127, 128, 129, 256, 33153}
KeyAccounts == [1..AddrLen -> {1, 128, 129}]
KeyHashes == [1..HashLen -> {1, 129}]

KeyCall(fn, id, suffix, key) ==
    [fn |-> fn, id |-> id, suffix |-> suffix, key |-> key]

DeriveKey(call) ==
    /\ Len(keys) < MaxKeyCalls
    /\ keys' = Append(keys, call)
    /\ UNCHANGED << bal, tok, bubbles, status, accList, accAsset, txHashList,
                    l2ToL1, contracts, byteCode, tasks, nodeID, nextTx, last,
                    hq >>

DoGetBubbleKey ==
    \E id \in KeyIDs :
        DeriveKey(KeyCall("GetBubbleKey", id, << >>, GetBubbleKey(id)))

DoAccListByBubKey ==
    \E id \in KeyIDs :
        DeriveKey(KeyCall("AccListByBubKey", id, << >>, AccListByBubKey(id)))

DoAccAssetByBubKey ==
    \E id \in KeyIDs, account \in KeyAccounts :
        DeriveKey(KeyCall("AccAssetByBubKey", id, account,
                          AccAssetByBubKey(id, account)))

DoTxHashByBubKey ==
    \E id \in KeyIDs, txHash \in KeyHashes :
        DeriveKey(KeyCall("TxHashByBubKey", id, txHash,
                          TxHashByBubKey(id, txHash)))

NextKeys ==
    \/ DoGetBubbleKey
    \/ DoAccListByBubKey
    \/ DoAccAssetByBubKey
    \/ DoTxHashByBubKey

SpecKeys == Init /\ [][NextKeys]_vars

\* ------------------------------------------------- block-header queries
\* answerGetBlockHeadersQuery (eth protocol handler).  Unsigned 64-bit
\* arithmetic is kept at a reduced width: every sum and difference of query
\* fields is taken modulo 2^UintBits.
UintBits == 3            \* width of uint64, scaled
maxHeadersServe == 2     \* headers served per query, scaled
softResponseLimit == 4   \* response size limit, in the unit of estHeaderSize
estHeaderSize == 1
ChainHead == 5           \* number of the canonical head block
SideNumber == 3          \* number of the one block off the canonical chain

RECURSIVE Pow2(_)
Pow2(n) == IF n = 0 THEN 1 ELSE 2 * Pow2(n - 1)
UintMod == Pow2(UintBits)
Uint(n) == n % UintMod

\* int(x) of an unsigned value: the top half of the range is negative.
IntOf(x) == IF x >= UintMod \div 2 THEN x - UintMod ELSE x

\* The chain: canonical block n has hash n + 1; one side block, child of the
\* canonical block below it; the empty hash is 0.
EmptyHash == 0
SideHash == UintMod + 1
UnknownHash == UintMod + 2
CanonicalHash(n) == n + 1
NoHeader == [Number |-> -1, Hash |-> EmptyHash]
Header(n, h) == [Number |-> n, Hash |-> h]

GetHeaderByNumber(n) ==
    IF n <= ChainHead THEN Header(n, CanonicalHash(n)) ELSE NoHeader

GetHeaderByHash(h) ==
    IF h = SideHash THEN Header(SideNumber, SideHash)
    ELSE IF h >= 1 /\ h - 1 <= ChainHead THEN Header(h - 1, h)
    ELSE NoHeader

GetHeader(h, n) ==
    IF GetHeaderByHash(h).Number = n THEN GetHeaderByHash(h) ELSE NoHeader

\* The ancestor-th ancestor of block (h, n): a canonical block, or the empty
\* hash when the chain is not that deep or the block is unknown.
GetAncestor(h, n, ancestor) ==
    IF ancestor > n \/ GetHeader(h, n) = NoHeader THEN Header(0, EmptyHash)
    ELSE IF ancestor = 0 THEN Header(n, h)
    ELSE Header(n - ancestor, CanonicalHash(n - ancestor))

\* The loop condition (lines 70-71).
HeadersLoopCond(q) ==
    /\ ~q.unknown
    /\ ~q.broke
    /\ Len(q.headers) < IntOf(q.Amount)
    /\ q.bytes < softResponseLimit
    /\ Len(q.headers) < maxHeadersServe
    /\ q.lookups < 2 * maxHeadersServe

\* Number based traversal towards the genesis block (lines 128-134).
NumberReverse(q) ==
    IF q.Number >= Uint(q.Skip + 1)
    THEN [q EXCEPT !.Number = Uint(q.Number - Uint(q.Skip + 1))]
    ELSE [q EXCEPT !.unknown = TRUE]

\* Number based traversal towards the leaf block (lines 136-138).
NumberForward(q) == [q EXCEPT !.Number = Uint(q.Number + q.Skip + 1)]

\* Hash based traversal towards the genesis block (lines 96-104).
HashReverse(q) ==
    LET ancestor == Uint(q.Skip + 1)
        a == GetAncestor(q.Hash, q.Number, ancestor)
    IN  IF ancestor = 0 THEN [q EXCEPT !.unknown = TRUE]
        ELSE [q EXCEPT !.Hash = a.Hash, !.Number = a.Number,
                       !.unknown = (a.Hash = EmptyHash)]

\* Hash based traversal towards the leaf block (lines 105-127).
HashForward(q, origin) ==
    LET current == origin.Number
        next == Uint(current + q.Skip + 1)
        header == GetHeaderByNumber(next)
        expOldHash == GetAncestor(header.Hash, next, Uint(q.Skip + 1)).Hash
    IN  IF next <= current THEN [q EXCEPT !.unknown = TRUE]
        ELSE IF header # NoHeader /\ expOldHash = q.Hash
        THEN [q EXCEPT !.Hash = header.Hash, !.Number = next]
        ELSE [q EXCEPT !.unknown = TRUE]

\* One pass of the loop body (lines 72-139).
HeadersLoopBody(q) ==
    LET origin == IF q.hashMode
                  THEN IF q.first THEN GetHeaderByHash(q.Hash)
                       ELSE GetHeader(q.Hash, q.Number)
                  ELSE GetHeaderByNumber(q.Number)
        q1 == [q EXCEPT !.lookups = @ + 1,
                        !.first = IF q.hashMode THEN FALSE ELSE @,
                        !.Number = IF q.hashMode /\ q.first
                                      /\ origin # NoHeader
                                   THEN origin.Number ELSE @]
        q2 == [q1 EXCEPT !.headers = Append(@, origin.Number),
                         !.bytes = @ + estHeaderSize]
    IN  IF origin = NoHeader THEN [q1 EXCEPT !.broke = TRUE]
        ELSE IF q.hashMode /\ q.Reverse THEN HashReverse(q2)
        ELSE IF q.hashMode THEN HashForward(q2, origin)
        ELSE IF q.Reverse THEN NumberReverse(q2)
        ELSE NumberForward(q2)

\* A decoded query: by hash (a canonical block, the side block, an unknown
\* hash) or by number, with every Skip and Amount of the width.
Query(hash, number, Amount, Skip, Reverse) ==
    [Hash |-> hash, Number |-> number, Amount |-> Amount, Skip |-> Skip,
     Reverse |-> Reverse, hashMode |-> hash # EmptyHash, first |-> TRUE,
     unknown |-> FALSE, broke |-> FALSE, lookups |-> 0, bytes |-> 0,
     headers |-> << >>, done |-> FALSE]

Queries ==
    { Query(h, 0, a, s, r) :
        h \in {CanonicalHash(n) : n \in 0..ChainHead}
                 \cup {SideHash, UnknownHash},
        a \in 0..(UintMod - 1), s \in 0..(UintMod - 1), r \in BOOLEAN }
    \cup { Query(EmptyHash, n, a, s, r) :
             n \in 0..(UintMod - 1), a \in 0..(UintMod - 1),
             s \in 0..(UintMod - 1), r \in BOOLEAN }

InitHeaders ==
    /\ bal = [a \in Addrs |-> IF a = "a1" THEN 2 ELSE 0]
    /\ tok = [t \in {"t1"} |-> [a \in Addrs |-> IF a = "a1" THEN 1 ELSE 0]]
    /\ bubbles = {}
    /\ status = [b \in BubbleIDs |-> 0]
    /\ accList = [b \in BubbleIDs |-> << >>]
    /\ accAsset = [b \in BubbleIDs |-> [a \in Users |-> Nil]]
    /\ txHashList = [b \in BubbleIDs |-> [ty \in TxTypes |-> << >>]]
    /\ l2ToL1 = [b \in BubbleIDs |-> [h \in L2Hashes |-> Nil]]
    /\ contracts = [b \in BubbleIDs |-> [c \in DeployAddrs |-> Nil]]
    /\ byteCode = {}
    /\ tasks = << >>
    /\ nodeID = OperatorsL1[1].NodeId
    /\ nextTx = 1
    /\ last = Call("init", "a1", 1, ZeroHash, "ok", 0, 0, "none", {}, TRUE)
    /\ keys = << >>
    /\ hq \in {Some(q) : q \in Queries}

AnswerHeadersStep ==
    /\ hq # Nil
    /\ ~hq[1].done
    /\ HeadersLoopCond(hq[1])
    /\ hq' = Some(HeadersLoopBody(hq[1]))
    /\ UNCHANGED << bal, tok, bubbles, status, accList, accAsset, txHashList,
                    l2ToL1, contracts, byteCode, tasks, nodeID, nextTx, last,
                    keys >>

AnswerHeadersReturn ==
    /\ hq # Nil
    /\ ~hq[1].done
    /\ ~HeadersLoopCond(hq[1])
    /\ hq' = Some([hq[1] EXCEPT !.done = TRUE])
    /\ UNCHANGED << bal, tok, bubbles, status, accList, accAsset, txHashList,
                    l2ToL1, contracts, byteCode, tasks, nodeID, nextTx, last,
                    keys >>

NextHeaders ==
    \/ AnswerHeadersStep
    \/ AnswerHeadersReturn

SpecHeaders == InitHeaders /\ [][NextHeaders]_vars

\* ------------------------------------------------------------- properties
\* The records the plugin persists for a bubble.
RecordFields == {"bubbles", "status", "accList", "accAsset", "txHashList",
                 "l2ToL1", "contracts", "byteCode"}
MutatingOps == {"allotBubble", "stakingToken", "withdrewToken", "settleBubble",
                "remoteDeploy", "remoteCall", "remoteCallExecutor"}

\* C1: withdrewToken on a bubble whose status is not Released fails with a
\* business error (or runs out of gas before the handler starts) and changes
\* nothing: no balance, no token balance, no record, whether or not the
\* caller has just staked.
C1_WithdrawNeedsReleased ==
    (last.op = "withdrewToken" /\ status[last.bub] # ReleasedStatus)
        => /\ last.out \in {"biz", "oog"}
           /\ last.fault # "oog" => last.out = "biz"
           /\ last.touched = {}
           /\ ~last.dirty

\* A staker asks for its funds back while the bubble is still running: the
\* call is refused and the funds stay in custody.
C1_Witness ==
    /\ last.op = "withdrewToken"
    /\ last.tx # ZeroHash
    /\ last.out = "biz"
    /\ status[last.bub] \in {CreatedStatus, PreReleaseStatus}
    /\ last.amt > 0
    /\ bal[BubbleContractAddr] >= last.amt

\* C2: a successful stakingToken under a non-zero hash moves exactly the
\* staked native amount from the caller to the custody address.
C2_StakeMovesNative ==
    [][ (last'.op = "stakingToken" /\ last'.out = "ok" /\ last'.tx # ZeroHash)
          => /\ bal'[BubbleContractAddr] = bal[BubbleContractAddr] + last'.amt
             /\ bal'[last'.from] = bal[last'.from] - last'.amt
             /\ \A a \in Addrs \ {BubbleContractAddr, last'.from} :
                    bal'[a] = bal[a] ]_vars

C2_Witness ==
    /\ last.op = "stakingToken"
    /\ last.out = "ok"
    /\ last.tx # ZeroHash
    /\ last.amt > 0
    /\ bal[BubbleContractAddr] > 0

\* C3: stake n by A, a settlement that reports A's native balance as n, the
\* bubble's release and A's withdrawal, each of them successful, leave A's
\* native balance where it was before the stake and A's stored asset all
\* zero.  Checked from every state a call can be made from.
RoundTripBatch(s, b, A, n, toks) ==
    [i \in 1..Len(s.accList[b]) |->
        IF s.accList[b][i] = A
        THEN [Account |-> A, NativeAmount |-> n, TokenAssets |-> toks]
        ELSE s.accAsset[b][s.accList[b][i]][1]]

RoundTrip(s, A, b, asset, toks) ==
    LET r1 == stakingToken(s, A, nextTx, TRUE, b, asset, nodeID, "none")
        r2 == settleBubble(r1.s, OperatorsL2[1].OpAddr, nextTx + 1, TRUE, "x",
                           b, RoundTripBatch(r1.s, b, A, asset.NativeAmount,
                                             toks),
                           "none", FALSE)
        s3 == [r2.s EXCEPT !.status[b] = ReleasedStatus]
        r4 == withdrewToken(s3, A, nextTx + 2, TRUE, b, "none", "nil")
    IN  [ok |-> r1.out = "ok" /\ r2.out = "ok" /\ r4.out = "ok", s |-> r4.s]

IsZeroAsset(a) ==
    /\ a # Nil
    /\ a[1].NativeAmount = 0
    /\ \A i \in 1..Len(a[1].TokenAssets) : a[1].TokenAssets[i].Balance = 0

C3_RoundTrip ==
    Ready =>
      \A A \in Users, b \in BubbleIDs, asset \in StakingAssets,
         toks \in SeqsUpTo([TokenAddr : {"t1"}, Balance : 1..MaxTokAmt], 1) :
        LET rt == RoundTrip(St, A, b, asset, toks) IN
        (asset.Account = A /\ rt.ok)
            => /\ rt.s.bal[A] = bal[A]
               /\ IsZeroAsset(rt.s.accAsset[b][A])

\* A run in which the round trip happened: one stake, one settlement, the
\* release, and a1's withdrawal of a positive amount, after which a1 holds
\* what it held at the start and its record is zeroed.
C3_Witness ==
    /\ last.op = "withdrewToken"
    /\ last.out = "ok"
    /\ last.from = "a1"
    /\ last.amt > 0
    /\ Len(txHashList[last.bub]["StakingToken"]) = 1
    /\ Len(txHashList[last.bub]["SettleBubble"]) = 1
    /\ Len(txHashList[last.bub]["WithdrewToken"]) = 1
    /\ status[last.bub] = ReleasedStatus
    /\ bal["a1"] = 2
    /\ IsZeroAsset(accAsset[last.bub]["a1"])

\* C4: a call of a mutating operation under the zero hash writes no persisted
\* bubble record and hands no task to the dispatch channel, whatever it
\* returns.
C4_EstimationWritesNoRecord ==
    (last.tx = ZeroHash /\ last.op \in MutatingOps)
        => /\ last.touched \cap RecordFields = {}
           /\ "tasks" \notin last.touched
           /\ ~last.dirty

\* An estimation of a stake that passed every check and ran its transfers.
C4_Witness ==
    /\ last.op = "stakingToken"
    /\ last.tx = ZeroHash
    /\ last.out = "null"
    /\ last.n > 0
    /\ "tok" \in last.touched
    /\ accList[last.bub] = << >>

\* C5: under the zero hash stakingToken and withdrewToken leave the native
\* balance of the caller and of the custody address as they were.
C5_EstimationMovesNoNative ==
    (last.tx = ZeroHash /\ last.op \in {"stakingToken", "withdrewToken"})
        => "bal" \notin last.touched

\* C6: a call under the zero hash whose checks all pass returns the null
\* result, never a receipt.
C6_EstimationReturnsNull ==
    (last.tx = ZeroHash /\ last.op \in MutatingOps) => last.out # "ok"

\* C7: under the zero hash and under a non-zero hash, from the same state and
\* with the same arguments, stakingToken and withdrewToken issue the same
\* sequence of sub-calls to the virtual machine.
C7_SameSubCalls ==
    Ready =>
      /\ \A from \in Users, b \in BubbleIDs, asset \in StakingAssets :
           StakingToken(St, from, ZeroHash, b, asset, nodeID, "none").calls
             = StakingToken(St, from, nextTx, b, asset, nodeID, "none").calls
      /\ \A from \in Users, b \in BubbleIDs :
           WithdrewToken(St, from, ZeroHash, b, "none", "nil").calls
             = WithdrewToken(St, from, nextTx, b, "none", "nil").calls

\* An estimation of a stake of two tokens that ran its sub-calls.
C7_Witness ==
    /\ last.op = "stakingToken"
    /\ last.tx = ZeroHash
    /\ last.n = 2
    /\ "tok" \in last.touched
    /\ Len(StakingToken(St, "a1", ZeroHash, last.bub,
                        [Account |-> "a1", NativeAmount |-> 0,
                         TokenAssets |-> << [TokenAddr |-> "t1",
                                             Balance |-> 1] >>],
                        nodeID, "none").calls) = 1

\* C8: a stakingToken that ends in a business error leaves every balance,
\* every token balance and the stored asset as they were before the call.
C8_FailedStakeChangesNothing ==
    (last.op = "stakingToken" /\ last.out = "biz" /\ last.tx # ZeroHash)
        => last.touched = {} /\ ~last.dirty

\* C9: a withdrewToken that ends in a business error because a token could
\* not be forwarded (no plugin write failed, no balance overdrawn) leaves
\* every balance, every token balance and the stored asset as they were
\* before the call.
C9_FailedWithdrawChangesNothing ==
    (last.op = "withdrewToken" /\ last.out = "biz" /\ last.tx # ZeroHash
       /\ last.fault = "none" /\ \A a \in Addrs : bal[a] >= 0)
        => last.touched = {} /\ ~last.dirty

\* C10: settleBubble with a batch whose length differs from the length of
\* the bubble's stored account list is rejected and writes nothing.
C10_SettleLengthMismatchRejected ==
    (last.op = "settleBubble" /\ last.fault # "oog"
       /\ last.n # Len(accList[last.bub]))
        => last.out \in {"biz"} /\ last.touched = {}

\* C11: after a successful settleBubble under a non-zero hash (the account
\* list read without error), every account of the stored account list holds
\* exactly the snapshot the batch gave for it, the L2 settlement hash is
\* mapped to the transaction's hash, and that hash is appended to the
\* settlement history.
C11_SettleStoresSnapshots ==
    Ready =>
      \A b \in bubbles, info \in SettlementInfos :
        LET r == settleBubble(St, OperatorsL2[1].OpAddr, nextTx, TRUE, "x", b,
                              info, "none", FALSE)
        IN  r.out = "ok" =>
              /\ \A i \in 1..Len(accList[b]) :
                   LET a == accList[b][i] IN
                   /\ \E k \in 1..Len(info) : info[k].Account = a
                   /\ \A k \in 1..Len(info) :
                        info[k].Account = a
                            => r.s.accAsset[b][a] = Some(info[k])
              /\ r.s.l2ToL1[b]["x"] = Some(nextTx)
              /\ r.s.txHashList[b]["SettleBubble"]
                     = Append(txHashList[b]["SettleBubble"], nextTx)

\* C12: settlement never creates an account.  Whatever the hash, the batch
\* and the outcome of the account-list read, a settleBubble by the operator
\* leaves the set of accounts holding an asset record and the account list
\* as they were, and a batch naming an account without a record is rejected
\* with nothing written.
HasRecord(s, b) == {a \in Users : s.accAsset[b][a] # Nil}

C12_SettleCreatesNoAccount ==
    Ready =>
      \A tx \in {ZeroHash, nextTx}, b \in BubbleIDs, info \in SettlementInfos,
         readErr \in BOOLEAN :
        LET r == settleBubble(St, OperatorsL2[1].OpAddr, tx, TRUE, "x", b,
                              info, "none", readErr)
        IN  /\ HasRecord(r.s, b) = HasRecord(St, b)
            /\ r.s.accList = accList
            /\ (\E k \in 1..Len(info) : accAsset[b][info[k].Account] = Nil)
                   => r.out = "biz" /\ r.s = St

\* The operator submits a batch of the right length to a running bubble and
\* is refused: the batch names an account that never staked.
C12_Witness ==
    /\ last.op = "settleBubble"
    /\ last.from = OperatorsL2[1].OpAddr
    /\ last.tx # ZeroHash
    /\ last.fault = "none"
    /\ last.bub \in bubbles
    /\ status[last.bub] # ReleasedStatus
    /\ last.n = Len(accList[last.bub])
    /\ last.n > 0
    /\ last.out = "biz"
    /\ HasRecord(St, last.bub) # Users

\* C13: settleBubble is accepted only from the operator address of the
\* bubble's first L2 operator; from any other sender it ends in a business
\* error (or out of gas) and writes nothing.
C13_SettleOnlyByOperator ==
    last.op = "settleBubble" =>
      /\ last.out \in {"ok", "null"} => last.from = OperatorsL2[1].OpAddr
      /\ last.from # OperatorsL2[1].OpAddr =>
           /\ last.out \in {"biz", "oog"}
           /\ last.fault # "oog" => last.out = "biz"
           /\ last.touched = {}
           /\ ~last.dirty

\* A staker submits a settlement for a running bubble it staked in.
C13_Witness ==
    /\ last.op = "settleBubble"
    /\ last.from = "a1"
    /\ last.tx # ZeroHash
    /\ last.out = "biz"
    /\ last.bub \in bubbles
    /\ status[last.bub] # ReleasedStatus
    /\ accAsset[last.bub]["a1"] # Nil

\* C14: the Released guards exclude each other.  For an existing bubble,
\* stakingToken and settleBubble are refused as "released" exactly when the
\* status is Released, withdrewToken is refused as "not released" exactly
\* when it is not, and no state lets both a stake or settlement and a
\* withdrawal succeed.
StakeSucceeds(b) ==
    \E from \in Users, asset \in StakingAssets :
        stakingToken(St, from, nextTx, TRUE, b, asset, nodeID, "none").out
            = "ok"
SettleSucceeds(b) ==
    \E from \in Users, info \in SettlementInfos :
        settleBubble(St, from, nextTx, TRUE, "x", b, info, "none", FALSE).out
            = "ok"
WithdrawSucceeds(b) ==
    \E from \in Users :
        withdrewToken(St, from, nextTx, TRUE, b, "none", "nil").out = "ok"

C14_ReleasedGuardsExclusive ==
    Ready =>
      \A b \in bubbles, tx \in {ZeroHash, nextTx} :
        /\ \A from \in Users, asset \in StakingAssets :
             asset.Account = from =>
               ((StakingToken(St, from, tx, b, asset, nodeID, "none").err
                     = "ErrBubbleIsRelease")
                  <=> status[b] = ReleasedStatus)
        /\ \A from \in Users, info \in SettlementInfos :
             (SettleBubble(St, from, tx, "x", b, info, "none", FALSE).err
                   = "ErrBubbleIsRelease")
                <=> status[b] = ReleasedStatus
        /\ \A from \in Users :
             (WithdrewToken(St, from, tx, b, "none", "nil").err
                   = "ErrBubbleIsNotRelease")
                <=> status[b] # ReleasedStatus
        /\ ~((StakeSucceeds(b) \/ SettleSucceeds(b)) /\ WithdrawSucceeds(b))

\* A funded staker with a record in a released bubble tries to stake again
\* and is refused.
C14_Witness ==
    /\ last.op = "stakingToken"
    /\ last.tx # ZeroHash
    /\ last.fault = "none"
    /\ last.out = "biz"
    /\ last.bub \in bubbles
    /\ status[last.bub] = ReleasedStatus
    /\ accAsset[last.bub][last.from] # Nil
    /\ bal[last.from] >= last.amt
    /\ WithdrawSucceeds(last.bub)

\* C15: a bubble in PreRelease or Released refuses every remoteDeploy (no
\* balance moved, no ContractInfo stored, no task posted), and a Released
\* bubble still lets an account with a record withdraw.
C15_NoDeployFromPreRelease ==
    /\ (last.op = "remoteDeploy" /\ last.bub \in bubbles
          /\ status[last.bub] >= PreReleaseStatus)
         => /\ last.out \in {"biz", "bizerr", "oog"}
            /\ last.touched = {}
            /\ ~last.dirty
    /\ Ready =>
         \A b \in bubbles, from \in Users :
           status[b] = ReleasedStatus =>
             /\ WithdrewToken(St, from, nextTx, b, "none", "nil").err
                    # "ErrBubbleIsNotRelease"
             /\ (accAsset[b][from] # Nil /\ StoredTokens(b, from) = 0)
                    => withdrewToken(St, from, nextTx, TRUE, b, "none",
                                     "nil").out = "ok"

\* A funded sender offers the minimum amount to a bubble that has left its
\* first lifecycle state and is refused.
C15_Witness ==
    /\ last.op = "remoteDeploy"
    /\ last.tx # ZeroHash
    /\ last.fault = "none"
    /\ last.bub \in bubbles
    /\ status[last.bub] >= PreReleaseStatus
    /\ last.amt >= MinStakingAmount
    /\ bal[last.from] >= last.amt
    /\ last.out = "biz"

\* C16: remoteDeploy refuses an amount below the size class's minimum and
\* accepts the minimum itself when every other precondition holds.
C16_DeployMinimumAmount ==
    /\ (last.op = "remoteDeploy" /\ last.bub \in bubbles
          /\ last.fault # "oog" /\ last.amt < MinStakingAmount)
         => last.out = "biz" /\ last.touched = {}
    /\ Ready =>
         \A from \in Users, b \in bubbles, address \in DeployAddrs :
           (/\ bal[from] >= MinStakingAmount
            /\ status[b] < PreReleaseStatus
            /\ GetByteCode(St, address)
            /\ contracts[b][address] = Nil)
             => remoteDeploy(St, from, nextTx, TRUE, b, address,
                             MinStakingAmount, nodeID, "none").out = "ok"

C16_Witness ==
    /\ last.op = "remoteDeploy"
    /\ last.out = "ok"
    /\ last.amt = MinStakingAmount
    /\ bal[BubbleContractAddr] >= MinStakingAmount
    /\ \E address \in DeployAddrs : contracts[last.bub][address] # Nil

\* C17: remoteCallExecutor refuses every sender but the operator address of
\* the bubble's first L2 operator, and accepts that operator's call on a
\* contract with code whose execution succeeds.
C17_ExecutorOnlyByOperator ==
    /\ (last.op = "remoteCallExecutor" /\ last.bub \in bubbles
          /\ last.fault # "oog" /\ last.from # OperatorsL2[1].OpAddr)
         => last.out = "biz" /\ last.touched = {}
    /\ Ready =>
         \A b \in bubbles, tx \in {ZeroHash, nextTx}, caller \in Users,
            contract \in ExecAddrs :
           HasCode(contract)
             => remoteCallExecutor(St, OperatorsL2[1].OpAddr, tx, TRUE,
                                   caller, b, contract,
                                   [kind |-> "good", to |-> "a1",
                                    amount |-> 0]).out = "ok"

\* A sender that is not the operator asks an existing bubble to execute.
C17_Witness ==
    /\ last.op = "remoteCallExecutor"
    /\ last.from # OperatorsL2[1].OpAddr
    /\ last.fault = "none"
    /\ last.tx # ZeroHash
    /\ last.bub \in bubbles
    /\ last.out = "biz"

\* C18: a successful withdrewToken under a non-zero hash leaves the caller's
\* record in place with a zero native amount and a zero balance for every
\* token it held, pays the stored native amount from custody to the caller,
\* and appends the transaction hash to the withdrawal history.
C18_WithdrawZeroesAndPays ==
    [][ (last'.op = "withdrewToken" /\ last'.out = "ok"
           /\ last'.tx # ZeroHash)
          => /\ accAsset[last'.bub][last'.from] # Nil
             /\ IsZeroAsset(accAsset'[last'.bub][last'.from])
             /\ Len(accAsset'[last'.bub][last'.from][1].TokenAssets)
                    = StoredTokens(last'.bub, last'.from)
             /\ bal'[last'.from]
                    = bal[last'.from] + StoredNative(last'.bub, last'.from)
             /\ bal'[BubbleContractAddr]
                    = bal[BubbleContractAddr]
                          - StoredNative(last'.bub, last'.from)
             /\ txHashList'[last'.bub]["WithdrewToken"]
                    = Append(txHashList[last'.bub]["WithdrewToken"],
                             last'.tx) ]_vars

\* A withdrawal that paid a native amount and forwarded a token.
C18_Witness ==
    /\ last.op = "withdrewToken"
    /\ last.out = "ok"
    /\ last.tx # ZeroHash
    /\ last.amt > 0
    /\ last.n > 0
    /\ IsZeroAsset(accAsset[last.bub][last.from])
    /\ tok["t1"][last.from] > 0
    /\ txHashList[last.bub]["WithdrewToken"] = << last.tx >>

\* C19: a business error is always returned as a structured failure result,
\* never as an error handed back to the virtual machine.
C19_BusinessErrorsAreResults ==
    last.op \in MutatingOps \cup {"remoteClear"} => last.out # "bizerr"

\* C20: a call to withdrewToken or settleBubble that would succeed, but in
\* which one of its storage writes fails, ends in a fatal error and leaves
\* the state as it was before the call.
C20_StorageFailureAborts ==
    Ready =>
        \A b \in bubbles, from \in Users :
            /\ \A fault \in {"asset", "txhash"} :
                   withdrewToken(St, from, nextTx, TRUE, b, "none", "nil").out
                       = "ok"
                   => LET r == withdrewToken(St, from, nextTx, TRUE, b,
                                             fault, "nil")
                      IN  r.out = "hard" /\ Commit(St, nextTx, r) = St
            /\ \A fault \in {"asset", "l2hash", "txhash"},
                  info \in SettlementInfos \ {<< >>} :
                   settleBubble(St, from, nextTx, TRUE, "x", b, info,
                                "none", FALSE).out = "ok"
                   => LET r == settleBubble(St, from, nextTx, TRUE, "x", b,
                                            info, fault, FALSE)
                      IN  r.out = "hard" /\ Commit(St, nextTx, r) = St

\* C21: a failed sub-call to the virtual machine ends the call in a
\* structured failure under a non-zero hash and in a plain error under the
\* zero hash, in remoteCallExecutor and in the token transfers of
\* stakingToken and withdrewToken.
\* The state after the sub-calls `calls`, made in order from s.
RECURSIVE AfterCalls(_, _)
AfterCalls(s, calls) ==
    IF calls = << >> THEN s
    ELSE AfterCalls(RunEvm(s, Head(calls)).s, Tail(calls))

\* The last of the sub-calls a handler made failed.
SubCallFails(s, calls) ==
    /\ calls # << >>
    /\ ~RunEvm(AfterCalls(s, SubSeq(calls, 1, Len(calls) - 1)),
               calls[Len(calls)]).ok

FailureOutcome(tx) == IF tx = ZeroHash THEN "hard" ELSE "biz"

C21_SubCallFailureByMode ==
    Ready =>
      \A from \in Users, b \in BubbleIDs, tx \in {ZeroHash, nextTx} :
        /\ \A asset \in StakingAssets :
             LET r == stakingToken(St, from, tx, TRUE, b, asset, nodeID,
                                   "none")
             IN  SubCallFails(St, r.calls) => r.out = FailureOutcome(tx)
        /\ LET r == withdrewToken(St, from, tx, TRUE, b, "none", "nil")
           IN  SubCallFails(St, r.calls) => r.out = FailureOutcome(tx)
        /\ \A caller \in Users, contract \in ExecAddrs, data \in ExecData :
             LET r == remoteCallExecutor(St, from, tx, TRUE, caller, b,
                                         contract, data)
             IN  SubCallFails(St, r.calls) => r.out = FailureOutcome(tx)

\* An estimation of a stake whose token transfer failed: the staker holds
\* none of the token it declared.
C21_Witness ==
    /\ last.op = "stakingToken"
    /\ last.tx = ZeroHash
    /\ last.out = "hard"
    /\ last.n > 0
    /\ last.fault = "none"
    /\ tok["t1"][last.from] = 0
    /\ last.bub \in bubbles

\* C22: every state-mutating entry point, called with less gas left than its
\* metered cost, fails with out-of-gas and leaves every balance, every record
\* and the task queue as they were.  remoteClear takes no gas argument: it
\* never charges, so what it does with the charge unmet is what it does.
C22_GasChargedFirst ==
    Ready =>
      \A from \in Users, b \in BubbleIDs, tx \in {ZeroHash, nextTx} :
        /\ \A env \in AllotEnvs :
             allotBubble(St, from, tx, FALSE, env) = Result(St, "oog", << >>)
        /\ \A asset \in StakingAssets :
             stakingToken(St, from, tx, FALSE, b, asset, nodeID, "none")
                 = Result(St, "oog", << >>)
        /\ withdrewToken(St, from, tx, FALSE, b, "none", "nil")
               = Result(St, "oog", << >>)
        /\ \A info \in SettleInputs(from) :
             settleBubble(St, from, tx, FALSE, "x", b, info, "none", FALSE)
                 = Result(St, "oog", << >>)
        /\ \A address \in DeployAddrs :
             /\ \A amount \in 0..MaxAmt :
                  remoteDeploy(St, from, tx, FALSE, b, address, amount,
                               nodeID, "none") = Result(St, "oog", << >>)
             /\ remoteCall(St, from, tx, FALSE, b, address, nodeID, "none")
                    = Result(St, "oog", << >>)
             /\ contracts[b][address] # Nil
                    => remoteClear(St, from, tx, b, address, "none")
                           = Result(St, "oog", << >>)
        /\ \A caller \in Users, contract \in ExecAddrs, data \in ExecData :
             remoteCallExecutor(St, from, tx, FALSE, caller, b, contract,
                                data) = Result(St, "oog", << >>)

\* C23: a remoteDeploy or remoteCall that succeeds under a non-zero hash on
\* a node listed among the bubble's L1 operators appends exactly one task,
\* its own, to the queue; on any other node, and whenever the call fails or
\* runs under the zero hash, the queue stays as it was.
L1NodeIds == {OperatorsL1[i].NodeId : i \in 1..Len(OperatorsL1)}

C23_RelayTaskOnce ==
    [][ last'.op \in {"remoteDeploy", "remoteCall"}
          => IF last'.out = "ok" /\ last'.tx # ZeroHash /\ nodeID \in L1NodeIds
             THEN /\ Len(tasks') = Len(tasks) + 1
                  /\ SubSeq(tasks', 1, Len(tasks)) = tasks
                  /\ tasks'[Len(tasks')].TxHash = last'.tx
                  /\ tasks'[Len(tasks')].BubbleID = last'.bub
                  /\ tasks'[Len(tasks')].kind
                         = IF last'.op = "remoteDeploy" THEN "deploy"
                                                        ELSE "call"
             ELSE tasks' = tasks ]_vars

\* A remoteCall relayed by the bubble's second L1 operator, after a deploy
\* relayed by the same node.
C23_Witness ==
    /\ last.op = "remoteCall"
    /\ last.out = "ok"
    /\ nodeID = OperatorsL1[2].NodeId
    /\ Len(tasks) = 2
    /\ tasks[1].kind = "deploy"
    /\ tasks[2].kind = "call"
    /\ tasks[2].TxHash = last.tx

\* C24: stakingToken appends a mint task exactly when it succeeds under a
\* non-zero hash on the node that is the bubble's first L1 operator, and the
\* task is appended after the native amount has moved, the asset record is
\* stored and the hash is in the staking history; on any other node, and on
\* every failed or zero-hash call, the queue stays as it was.
C24_MintTaskAfterPersist ==
    [][ last'.op = "stakingToken"
          => /\ IF last'.out = "ok" /\ last'.tx # ZeroHash
                   /\ nodeID = OperatorsL1[1].NodeId
                THEN /\ tasks' = Append(tasks,
                                        [kind |-> "mint",
                                         BubbleID |-> last'.bub,
                                         TxHash |-> last'.tx,
                                         RPC |-> OperatorsL2[1].RPC,
                                         OpAddr |-> OperatorsL1[1].OpAddr,
                                         Account |-> last'.from])
                     /\ bal'[BubbleContractAddr]
                            = bal[BubbleContractAddr] + last'.amt
                     /\ accAsset'[last'.bub][last'.from] # Nil
                     /\ txHashList'[last'.bub]["StakingToken"]
                            = Append(txHashList[last'.bub]["StakingToken"],
                                     last'.tx)
                ELSE tasks' = tasks
             /\ last'.fault \in {"asset", "txhash", "post"}
                    => "tasks" \notin last'.touched
             /\ "tasks" \in last'.touched
                    => "txHashList" \in last'.touched ]_vars

\* A stake of a native amount and a token on the first L1 operator's node,
\* with its mint task queued.
C24_Witness ==
    /\ last.op = "stakingToken"
    /\ last.out = "ok"
    /\ nodeID = OperatorsL1[1].NodeId
    /\ last.amt > 0
    /\ last.n > 0
    /\ tasks # << >>
    /\ tasks[Len(tasks)].kind = "mint"
    /\ tasks[Len(tasks)].TxHash = last.tx
    /\ bal[BubbleContractAddr] >= last.amt

\* C25: a remoteDeploy for an address already registered in the bubble is
\* rejected, whatever its sender, amount and hash, and changes nothing: no
\* balance moves and the registered record (creator, amount) stays.
C25_NoRedeploy ==
    Ready =>
      \A from \in Users, b \in bubbles, address \in DeployAddrs,
         amount \in 0..MaxAmt, tx \in {ZeroHash, nextTx},
         fault \in {"none", "contract", "post"} :
        contracts[b][address] # Nil
            => LET r == remoteDeploy(St, from, tx, TRUE, b, address, amount,
                                     nodeID, fault)
               IN  /\ r.out \in {"biz", "bizerr"}
                   /\ r.s = St
                   /\ Commit(St, tx, r).contracts[b][address]
                          = contracts[b][address]

\* Right after a deploy of c1 by a1, who can still pay the minimum: a second
\* deploy of c1 by a1 passes every other check and is refused.
C25_Witness ==
    /\ last.op = "remoteDeploy"
    /\ last.out = "ok"
    /\ last.from = "a1"
    /\ contracts[last.bub]["c1"]
           = Some([Creator |-> "a1", Address |-> "c1", Amount |-> last.amt])
    /\ bal["a1"] >= MinStakingAmount
    /\ status[last.bub] < PreReleaseStatus
    /\ remoteDeploy(St, "a1", nextTx, TRUE, last.bub, "c1", MinStakingAmount,
                    nodeID, "none").out = "biz"

\* C26: remoteClear succeeds only for the creator recorded in the
\* ContractInfo; a successful call removes that record, moves exactly the
\* recorded amount from custody to the creator and changes nothing else; a
\* call by any other account changes nothing; and a successful remoteDeploy
\* followed by the creator's remoteClear restores every native balance.
C26_ClearReturnsEscrow ==
    Ready =>
      \A from \in Users, b \in bubbles, address \in DeployAddrs :
        LET info == contracts[b][address] IN
        /\ \A tx \in {ZeroHash, nextTx} :
             LET r == remoteClear(St, from, tx, b, address, "none")
                 s2 == Commit(St, tx, r)
             IN  /\ r.out = "ok"
                      => /\ info # Nil
                         /\ from = info[1].Creator
                         /\ s2.contracts
                              = [contracts EXCEPT ![b][address] = Nil]
                         /\ s2.bal
                              = [bal EXCEPT
                                   ![BubbleContractAddr] = @ - info[1].Amount,
                                   ![from] = @ + info[1].Amount]
                         /\ [s2 EXCEPT !.bal = bal, !.contracts = contracts]
                              = St
                 /\ (info = Nil \/ from # info[1].Creator)
                      => r.out # "ok" /\ s2 = St
        /\ \A amount \in 0..MaxAmt :
             LET d == remoteDeploy(St, from, nextTx, TRUE, b, address, amount,
                                   nodeID, "none")
                 c == remoteClear(d.s, from, nextTx + 1, b, address, "none")
             IN  d.out = "ok"
                   => /\ c.out = "ok"
                      /\ c.s.bal = bal
                      /\ c.s.contracts = contracts

\* a1 deployed c1 with an escrow and has just cleared it: the record is gone
\* and the escrow is back.
C26_Witness ==
    /\ last.op = "remoteClear"
    /\ last.out = "ok"
    /\ last.from = "a1"
    /\ "c1" \in byteCode
    /\ contracts[last.bub]["c1"] = Nil
    /\ bal["a1"] = 2
    /\ bal[BubbleContractAddr] = 0

\* C27: getBubbleInfo, getL1HashByL2Hash and getBubTxHashList change no
\* balance, no token balance and no record and queue no task, and a failed
\* lookup ends in the structured not-found result, never in an error.
QueryOps == {"getBubbleInfo", "getL1HashByL2Hash", "getBubTxHashList"}

C27_QueriesReadOnly ==
    last.op \in QueryOps
        => /\ last.touched = {}
           /\ ~last.dirty
           /\ last.out \in {"ok", "notfound"}
           /\ last.fault = "readErr" => last.out = "notfound"
           /\ (last.op = "getBubbleInfo" /\ last.bub \notin bubbles)
                  => last.out = "notfound"
           /\ (last.op = "getL1HashByL2Hash"
                 /\ \A h \in L2Hashes : l2ToL1[last.bub][h] = Nil)
                  => last.out = "notfound"

\* A lookup of a settlement hash in a bubble that has stakes but was never
\* settled.
C27_Witness ==
    /\ last.op = "getL1HashByL2Hash"
    /\ last.out = "notfound"
    /\ last.fault = "none"
    /\ last.tx # ZeroHash
    /\ last.bub \in bubbles
    /\ txHashList[last.bub]["StakingToken"] # << >>
    /\ l2ToL1[last.bub]["x"] = Nil

\* C28: the hash index only grows.  No step changes or removes a recorded
\* L2-to-L1 mapping; every transaction-hash list stays as it is or gets one
\* hash appended; and a successful stakingToken, withdrewToken or
\* settleBubble under a non-zero hash appends its own hash to the list of
\* its own type.
OwnTxType(op) ==
    IF op = "stakingToken" THEN "StakingToken"
    ELSE IF op = "withdrewToken" THEN "WithdrewToken"
    ELSE "SettleBubble"

C28_HashIndexAppendOnly ==
    [][ /\ \A b \in BubbleIDs, h \in L2Hashes :
             l2ToL1[b][h] # Nil => l2ToL1'[b][h] = l2ToL1[b][h]
        /\ \A b \in BubbleIDs, ty \in TxTypes :
             \/ txHashList'[b][ty] = txHashList[b][ty]
             \/ \E h \in 1..MaxTx :
                  txHashList'[b][ty] = Append(txHashList[b][ty], h)
        /\ (last'.op \in {"stakingToken", "withdrewToken", "settleBubble"}
              /\ last'.out = "ok" /\ last'.tx # ZeroHash)
             => txHashList'[last'.bub]
                  = [txHashList[last'.bub] EXCEPT ![OwnTxType(last'.op)]
                       = Append(@, last'.tx)] ]_vars

\* C29: allotBubble creates a bubble only when the use ratio is below the
\* ceiling and the element checks pass.  When the ratio is at the ceiling,
\* when the element checks fail, and when creation itself fails, the call
\* changes nothing and returns what the election returns: the elected
\* bubble's ID, or the election's own error.
ElectionOutcome(s, env) ==
    IF env.electErr = "hard" /\ CanElectBubble(s) THEN "hard"
    ELSE IF env.electErr = "nil" /\ CanElectBubble(s) THEN "ok"
    ELSE "biz"

C29_AllotFallsThroughToElection ==
    Ready =>
      \A from \in Users, tx \in {ZeroHash, nextTx}, env \in AllotEnvs :
        LET r == allotBubble(St, from, tx, TRUE, env) IN
        (~env.ratioErr /\ ~env.vrfErr)
          => /\ r.s # St => (env.ratioLow /\ env.elemOK /\ r.out = "ok"
                               /\ r.s.bubbles # bubbles)
             /\ (\/ ~env.ratioLow
                 \/ ~env.elemOK
                 \/ (tx # ZeroHash
                       /\ (~env.createOK \/ ~CanCreateBubble(St))))
                  => r = Result(St, ElectionOutcome(St, env), << >>)

\* An allotment that passed the ratio and element checks, could not create
\* a bubble and returned the elected one.
C29_Witness ==
    /\ last.op = "allotBubble"
    /\ last.fault = "create"
    /\ last.tx # ZeroHash
    /\ last.out = "ok"
    /\ last.touched = {}
    /\ bubbles # {}
    /\ CanElectBubble(St)

RECURSIVE SumOf(_, _)
SumOf(f, S) ==
    IF S = {} THEN 0
    ELSE LET x == CHOOSE y \in S : TRUE IN f[x] + SumOf(f, S \ {x})

StoredNativeTotal ==
    SumOf([p \in BubbleIDs \X Users |-> StoredNative(p[1], p[2])],
          BubbleIDs \X Users)

EscrowTotal ==
    SumOf([p \in BubbleIDs \X DeployAddrs |->
             IF contracts[p[1]][p[2]] = Nil THEN 0
             ELSE contracts[p[1]][p[2]][1].Amount],
          BubbleIDs \X DeployAddrs)

C31_CustodySolvent ==
    /\ bal[BubbleContractAddr] >= 0
    /\ bal[BubbleContractAddr] >= StoredNativeTotal + EscrowTotal

\* C32: from the moment a bubble becomes Released, whatever withdrewToken
\* calls an account makes and however they end, the native amount they
\* credit to the account in total is at most the native amount stored for
\* it at that moment.  Checked for two calls in a row, with no write failing.
C32_NoDoubleWithdrawal ==
    (last.op = "advance" /\ status[last.bub] = ReleasedStatus)
        => \A from \in Users :
             LET b == last.bub
                 r1 == withdrewToken(St, from, nextTx, TRUE, b, "none", "nil")
                 s1 == Commit(St, nextTx, r1)
                 r2 == withdrewToken(s1, from, nextTx + 1, TRUE, b, "none",
                                     "nil")
                 s2 == Commit(s1, nextTx + 1, r2)
             IN  s2.bal[from] - bal[from] <= StoredNative(b, from)

\* C33: stakingToken, withdrewToken and settleBubble return the null result
\* only under the zero hash; under a non-zero hash each call ends in a
\* receipt, a structured failure or an error.
C33_NullOnlyInEstimation ==
    (last.op \in {"stakingToken", "withdrewToken", "settleBubble"}
       /\ last.tx # ZeroHash)
        => last.out # "null"

\* C34: remoteCallExecutor makes a sub-call to the virtual machine only
\* against an address that has a ContractInfo in the named bubble.
C34_ExecutorOnlyRegistered ==
    Ready =>
      \A from \in Users, tx \in {ZeroHash, nextTx}, caller \in Users,
         b \in bubbles, contract \in ExecAddrs, data \in ExecData :
        remoteCallExecutor(St, from, tx, TRUE, caller, b, contract,
                           data).calls # << >>
            => /\ contract \in DeployAddrs
               /\ contracts[b][contract] # Nil

\* C35: a settleBubble under a non-zero hash during which the read of the
\* bubble's account list fails is rejected and writes nothing, whatever the
\* size of the batch.
C35_FailedListReadRejects ==
    (last.op = "settleBubble" /\ last.fault = "readErr"
       /\ last.tx # ZeroHash)
        => /\ last.out \in {"biz", "hard"}
           /\ last.touched = {}
           /\ ~last.dirty

\* C36: remoteClear never faults: for an address without a ContractInfo in
\* the bubble it ends in a structured failure or a returned error, and
\* changes nothing.
C36_ClearOfUnregisteredRejected ==
    last.op = "remoteClear"
        => /\ last.out # "panic"
           /\ last.out \in {"biz", "hard"} => last.touched = {} /\ ~last.dirty

\* C37: answerGetBlockHeadersQuery ends within the lookup bound, returns at
\* most min(Amount, maxHeadersServe) headers, and the numbers of the headers
\* it returns are strictly increasing for a forward query and strictly
\* decreasing for a reverse query, by hash and by number, for every Skip.
C37_HeadersBoundedAndMonotone ==
    hq # Nil =>
        LET q == hq[1] IN
        /\ q.lookups <= 2 * maxHeadersServe
        /\ Len(q.headers) <= q.lookups
        /\ q.done =>
             /\ Len(q.headers) <= maxHeadersServe
             /\ Len(q.headers) <= q.Amount
             /\ \A i, j \in 1..Len(q.headers) :
                  i < j => IF q.Reverse THEN q.headers[i] > q.headers[j]
                                        ELSE q.headers[i] < q.headers[j]

====
